---- MODULE Spec2Model ----
(***************************************************************************)
(* I2P address construction (src/net/i2p.rs): I2pAddr::new, from_b64,      *)
(* from_b32, string and Display, together with the data_encoding codecs    *)
(* and the SHA-256 digest they call.                                       *)
(*                                                                         *)
(* A string is a sequence of characters.  An ASCII character is the        *)
(* one-letter TLA+ string; a non-ASCII code point is written "U+XXXX".     *)
(* A byte of a string's UTF-8 form is the character itself for ASCII and   *)
(* "xHH" for a byte of a multi-byte sequence.  Decoded binary data is a    *)
(* sequence of integers 0..255.                                            *)
(***************************************************************************)
EXTENDS Integers, Sequences, FiniteSets, TLC

VARIABLES input, op, result

vars == <<input, op, result>>

(***************************************************************************)
(* Bounds of the explored inputs.                                          *)
(***************************************************************************)
\* longest variable tail appended to a fixed base32 block
MaxTail == 3
\* longest free-form destination string handed to the constructors
MaxB64Len == 4

(***************************************************************************)
(* Program constants.                                                      *)
(***************************************************************************)
B32_EXT == <<".", "b", "3", "2", ".", "i", "2", "p">>
B32_LEN == 52

(***************************************************************************)
(* Generic helpers.                                                        *)
(***************************************************************************)
Range(s) == {s[i] : i \in DOMAIN s}

SeqsUpTo(S, n) == UNION {[1..k -> S] : k \in 0..n}

RECURSIVE Repeat(_, _)
Repeat(c, n) == IF n = 0 THEN <<>> ELSE <<c>> \o Repeat(c, n - 1)

RECURSIVE Flatten(_)
Flatten(ss) == IF ss = <<>> THEN <<>> ELSE Head(ss) \o Flatten(Tail(ss))

UpperLetters ==
    <<"A", "B", "C", "D", "E", "F", "G", "H", "I", "J", "K", "L", "M",
      "N", "O", "P", "Q", "R", "S", "T", "U", "V", "W", "X", "Y", "Z">>
LowerLetters ==
    <<"a", "b", "c", "d", "e", "f", "g", "h", "i", "j", "k", "l", "m",
      "n", "o", "p", "q", "r", "s", "t", "u", "v", "w", "x", "y", "z">>
Digits == <<"0", "1", "2", "3", "4", "5", "6", "7", "8", "9">>

(***************************************************************************)
(* str::len, str::as_bytes, str::to_uppercase, str::split.                 *)
(***************************************************************************)
\* UTF-8 form of one character
Utf8(c) ==
    CASE c = "U+00DF" -> <<"xC3", "x9F">>
      [] c = "U+017F" -> <<"xC5", "xBF">>
      [] OTHER -> <<c>>

\* str::as_bytes
as_bytes(s) == Flatten([i \in DOMAIN s |-> Utf8(s[i])])

\* str::len counts bytes, not characters
len(s) == Len(as_bytes(s))

\* char::to_uppercase: a-z to A-Z, sharp s to "SS", long s to "S"
CharUpper(c) ==
    IF \E i \in DOMAIN LowerLetters : LowerLetters[i] = c
    THEN <<UpperLetters[CHOOSE i \in DOMAIN LowerLetters : LowerLetters[i] = c]>>
    ELSE CASE c = "U+00DF" -> <<"S", "S">>
           [] c = "U+017F" -> <<"S">>
           [] OTHER -> <<c>>

\* str::to_uppercase
to_uppercase(s) == Flatten([i \in DOMAIN s |-> CharUpper(s[i])])

StartsWithAt(s, i, pat) ==
    /\ i + Len(pat) - 1 <= Len(s)
    /\ SubSeq(s, i, i + Len(pat) - 1) = pat

\* str::split(pat): the pieces between the non-overlapping matches of pat,
\* found left to right
RECURSIVE SplitFrom(_, _, _, _)
SplitFrom(s, pat, start, i) ==
    IF i > Len(s) THEN <<SubSeq(s, start, Len(s))>>
    ELSE IF StartsWithAt(s, i, pat)
         THEN <<SubSeq(s, start, i - 1)>>
              \o SplitFrom(s, pat, i + Len(pat), i + Len(pat))
         ELSE SplitFrom(s, pat, start, i + 1)

split(s, pat) == SplitFrom(s, pat, 1, 1)

(***************************************************************************)
(* data_encoding: symbol tables, decoding and encoding, most significant   *)
(* bit first, trailing bits checked.                                       *)
(***************************************************************************)
\* the RFC 4648 base64 symbols, "+" and "/" where a destination has "-"
\* and "~": a fault C7 tells from the custom table
BASE64_standard_symbols == UpperLetters \o LowerLetters \o Digits \o <<"+", "/">>

\* the symbols of the custom base64 encoding
BASE64_I2P_symbols == UpperLetters \o LowerLetters \o Digits \o <<"-", "~">>
\* the RFC 4648 base32 symbols of BASE32 and BASE32_NOPAD
BASE32_symbols == UpperLetters \o <<"2", "3", "4", "5", "6", "7">>
PADDING == "="

\* value of each symbol of a table
Values(symbols) ==
    [c \in Range(symbols) |-> (CHOOSE i \in DOMAIN symbols : symbols[i] = c) - 1]

BASE64_I2P_values == Values(BASE64_I2P_symbols)
BASE32_values == Values(BASE32_symbols)

DecodeOk(bytes) == [ok |-> TRUE, bytes |-> bytes]
DecodeError(kind) == [ok |-> FALSE, kind |-> kind]

\* the bits of the symbols gathered into bytes; acc holds the nb bits not
\* yet written
RECURSIVE DecodeLoop(_, _, _, _, _, _, _)
DecodeLoop(bit, values, s, i, acc, nb, out) ==
    IF i > Len(s) THEN [out |-> out, acc |-> acc]
    ELSE LET a == acc * 2^bit + values[s[i]]
             n == nb + bit
         IN  IF n >= 8
             THEN DecodeLoop(bit, values, s, i + 1, a % 2^(n - 8), n - 8,
                             Append(out, a \div 2^(n - 8)))
             ELSE DecodeLoop(bit, values, s, i + 1, a, n, out)

\* decode_base_mut: every character a symbol, the trailing bits zero
decode_base(bit, values, s) ==
    IF \E i \in DOMAIN s : s[i] \notin DOMAIN values THEN DecodeError("Symbol")
    ELSE LET r == DecodeLoop(bit, values, s, 1, 0, 0, <<>>)
         IN  IF r.acc # 0 THEN DecodeError("Trailing") ELSE DecodeOk(r.out)

\* characters per full block: 8 for base32, 4 for base64
enc(bit) == IF bit = 5 THEN 8 ELSE 4

\* check_pad: the length of a block without its trailing padding
check_pad(bit, block) ==
    LET count == Cardinality({i \in DOMAIN block :
                                \A j \in i..Len(block) : block[j] = PADDING})
        n == Len(block) - count
    IN  [ok |-> n > 0 /\ (bit * n) % 8 < bit, len |-> n]

\* decode_pad_mut: block after block, each block padded on its own
RECURSIVE decode_pad(_, _, _, _)
decode_pad(bit, values, s, out) ==
    IF s = <<>> THEN DecodeOk(out)
    ELSE LET block == SubSeq(s, 1, enc(bit))
             pad == check_pad(bit, block)
         IN  IF ~pad.ok THEN DecodeError("Padding")
             ELSE LET r == decode_base(bit, values, SubSeq(block, 1, pad.len))
                  IN  IF ~r.ok THEN r
                      ELSE decode_pad(bit, values,
                                      SubSeq(s, enc(bit) + 1, Len(s)),
                                      out \o r.bytes)

\* Encoding::decode of an encoding with padding
DecodePadded(bit, values, s) ==
    IF Len(s) % enc(bit) # 0 THEN DecodeError("Length")
    ELSE decode_pad(bit, values, s, <<>>)

\* Encoding::decode of an encoding without padding
DecodeNoPad(bit, values, s) ==
    IF (bit * Len(s)) % 8 >= bit THEN DecodeError("Length")
    ELSE decode_base(bit, values, s)

BASE64_I2P_decode(bytes) == DecodePadded(6, BASE64_I2P_values, bytes)
BASE32_NOPAD_decode(bytes) == DecodeNoPad(5, BASE32_values, bytes)

\* the bits of the bytes cut into symbols; the last symbol is filled with
\* zero bits
RECURSIVE EncodeLoop(_, _, _, _, _, _)
EncodeLoop(bit, symbols, bytes, i, acc, nb) ==
    IF nb >= bit
    THEN <<symbols[(acc \div 2^(nb - bit)) + 1]>>
         \o EncodeLoop(bit, symbols, bytes, i, acc % 2^(nb - bit), nb - bit)
    ELSE IF i > Len(bytes)
         THEN IF nb = 0 THEN <<>> ELSE <<symbols[acc * 2^(bit - nb) + 1]>>
         ELSE EncodeLoop(bit, symbols, bytes, i + 1, acc * 256 + bytes[i], nb + 8)

encode_base(bit, symbols, bytes) == EncodeLoop(bit, symbols, bytes, 1, 0, 0)

\* Encoding::encode of an encoding with padding: full blocks of enc(bit)
\* characters
EncodePadded(bit, symbols, bytes) ==
    LET body == encode_base(bit, symbols, bytes)
    IN  body \o Repeat(PADDING, (enc(bit) - (Len(body) % enc(bit))) % enc(bit))

BASE32_encode(bytes) == EncodePadded(5, BASE32_symbols, bytes)

(***************************************************************************)
(* sha2::Sha256 (FIPS 180-4).  A 32-bit word is the pair <<hi, lo>> of its *)
(* 16-bit halves, so that no intermediate value leaves the integers the    *)
(* model checker represents.                                               *)
(***************************************************************************)
Add32(a, b) ==
    LET lo == a[2] + b[2]
    IN  <<(a[1] + b[1] + (lo \div 65536)) % 65536, lo % 65536>>

\* rotate right by n, 0 < n < 32, n # 16
RotR(a, n) ==
    LET b == IF n >= 16 THEN <<a[2], a[1]>> ELSE a
        m == n % 16
    IN  <<(b[1] \div 2^m) + (b[2] % 2^m) * 2^(16 - m),
          (b[2] \div 2^m) + (b[1] % 2^m) * 2^(16 - m)>>

\* shift right by n, 0 < n < 16
ShR(a, n) == <<a[1] \div 2^n, (a[2] \div 2^n) + (a[1] % 2^n) * 2^(16 - n)>>

\* x ^ y ^ z on n-bit values
RECURSIVE Xor3Bits(_, _, _, _)
Xor3Bits(x, y, z, n) ==
    IF n = 0 THEN 0
    ELSE (((x % 2) + (y % 2) + (z % 2)) % 2)
         + 2 * Xor3Bits(x \div 2, y \div 2, z \div 2, n - 1)

\* (x & y) ^ (~x & z) on n-bit values
RECURSIVE ChBits(_, _, _, _)
ChBits(x, y, z, n) ==
    IF n = 0 THEN 0
    ELSE (IF x % 2 = 1 THEN y % 2 ELSE z % 2)
         + 2 * ChBits(x \div 2, y \div 2, z \div 2, n - 1)

\* (x & y) ^ (x & z) ^ (y & z) on n-bit values
RECURSIVE MajBits(_, _, _, _)
MajBits(x, y, z, n) ==
    IF n = 0 THEN 0
    ELSE (((x % 2) + (y % 2) + (z % 2)) \div 2)
         + 2 * MajBits(x \div 2, y \div 2, z \div 2, n - 1)

Xor3(x, y, z) == <<Xor3Bits(x[1], y[1], z[1], 16), Xor3Bits(x[2], y[2], z[2], 16)>>
Ch(x, y, z) == <<ChBits(x[1], y[1], z[1], 16), ChBits(x[2], y[2], z[2], 16)>>
Maj(x, y, z) == <<MajBits(x[1], y[1], z[1], 16), MajBits(x[2], y[2], z[2], 16)>>

BigSigma0(x) == Xor3(RotR(x, 2), RotR(x, 13), RotR(x, 22))
BigSigma1(x) == Xor3(RotR(x, 6), RotR(x, 11), RotR(x, 25))
SmallSigma0(x) == Xor3(RotR(x, 7), RotR(x, 18), ShR(x, 3))
SmallSigma1(x) == Xor3(RotR(x, 17), RotR(x, 19), ShR(x, 10))

\* the round constants
K256 ==
    <<<<17034, 12184>>, <<28983, 17553>>, <<46528, 64463>>,
      <<59829, 56229>>, <<14678, 49755>>, <<23025, 4593>>,
      <<37439, 33444>>, <<43804, 24277>>, <<55303, 43672>>,
      <<4739, 23297>>, <<9265, 34238>>, <<21772, 32195>>,
      <<29374, 23924>>, <<32990, 45566>>, <<39900, 1703>>,
      <<49563, 61812>>, <<58523, 27073>>, <<61374, 18310>>,
      <<4033, 40390>>, <<9228, 41420>>, <<11753, 11375>>,
      <<19060, 33962>>, <<23728, 43484>>, <<30457, 35034>>,
      <<38974, 20818>>, <<43057, 50797>>, <<45059, 10184>>,
      <<48985, 32711>>, <<50912, 3059>>, <<54695, 37191>>,
      <<1738, 25425>>, <<5161, 10599>>, <<10167, 2693>>,
      <<11803, 8504>>, <<19756, 28156>>, <<21304, 3347>>,
      <<25866, 29524>>, <<30314, 2747>>, <<33218, 51502>>,
      <<37490, 11397>>, <<41663, 59553>>, <<43034, 26187>>,
      <<49739, 35696>>, <<51052, 20899>>, <<53650, 59417>>,
      <<54937, 1572>>, <<62478, 13701>>, <<4202, 41072>>,
      <<6564, 49430>>, <<7735, 27656>>, <<10056, 30540>>,
      <<13488, 48309>>, <<14620, 3251>>, <<20184, 43594>>,
      <<23452, 51791>>, <<26670, 28659>>, <<29839, 33518>>,
      <<30885, 25455>>, <<33992, 30740>>, <<36039, 520>>,
      <<37054, 65530>>, <<42064, 27883>>, <<48889, 41975>>,
      <<50801, 30962>>>>

\* the initial hash value
H256 ==
    <<<<27145, 58983>>, <<47975, 44677>>, <<15470, 62322>>,
      <<42319, 62778>>, <<20750, 21119>>, <<39685, 26764>>,
      <<8067, 55723>>, <<23520, 52505>>>>

\* the message followed by 0x80, zero bytes up to 56 modulo 64, and the
\* message's length in bits as 8 bytes, most significant first
Sha256Pad(msg) ==
    LET bits == 8 * Len(msg)
        zeros == (119 - (Len(msg) % 64)) % 64
    IN  msg \o <<128>> \o Repeat(0, zeros) \o <<0, 0, 0, 0>>
            \o <<bits \div 16777216, (bits \div 65536) % 256,
                 (bits \div 256) % 256, bits % 256>>

\* the message schedule of one 64-byte block
RECURSIVE Schedule(_)
Schedule(w) ==
    IF Len(w) = 64 THEN w
    ELSE LET t == Len(w) + 1
         IN  Schedule(Append(w,
                 Add32(Add32(SmallSigma1(w[t - 2]), w[t - 7]),
                       Add32(SmallSigma0(w[t - 15]), w[t - 16]))))

BlockWords(block) ==
    [t \in 1..16 |-> <<block[4 * t - 3] * 256 + block[4 * t - 2],
                       block[4 * t - 1] * 256 + block[4 * t]>>]

\* the 64 rounds; ss holds the working variables <<a, b, c, d, e, f, g, h>>
\* before the first round and after each round made so far
RECURSIVE Rounds(_, _)
Rounds(ss, w) ==
    IF Len(ss) = 65 THEN ss[65]
    ELSE LET t == Len(ss)
             s == ss[t]
             t1 == Add32(Add32(Add32(s[8], BigSigma1(s[5])),
                               Add32(Ch(s[5], s[6], s[7]), K256[t])), w[t])
             t2 == Add32(BigSigma0(s[1]), Maj(s[1], s[2], s[3]))
         IN  Rounds(Append(ss, <<Add32(t1, t2), s[1], s[2], s[3],
                                 Add32(s[4], t1), s[5], s[6], s[7]>>), w)

\* compress one block into the hash value h
Compress(h, block) ==
    LET s == Rounds(<<h>>, Schedule(BlockWords(block)))
    IN  [i \in 1..8 |-> Add32(h[i], s[i])]

RECURSIVE Sha256Blocks(_, _)
Sha256Blocks(h, data) ==
    IF data = <<>> THEN h
    ELSE Sha256Blocks(Compress(h, SubSeq(data, 1, 64)),
                      SubSeq(data, 65, Len(data)))

\* Sha256::new, input, result: the 32 bytes of the digest
Sha256(msg) ==
    LET h == Sha256Blocks(H256, Sha256Pad(msg))
    IN  Flatten([i \in 1..8 |-> <<h[i][1] \div 256, h[i][1] % 256,
                                  h[i][2] \div 256, h[i][2] % 256>>])

(***************************************************************************)
(* crate::error and the I2pAddr operations.                                *)
(***************************************************************************)
I2pAddr(inner) == [inner |-> inner]

Ok(addr) == [ok |-> TRUE, addr |-> addr]

\* ErrorKind::BadAddressEncoding(s).to_err()
BadAddressEncoding(s) == [ok |-> FALSE, kind |-> "BadAddressEncoding", arg |-> s]

\* impl From<DecodeError> for Error, used by the ? operator of from_b32
FromDecodeError(e) == [ok |-> FALSE, kind |-> "BadAddressEncoding", arg |-> e.kind]

\* a faulty new that normalises the case of what it stores: C9 tells it
\* from new
new_uppercased(dest) == I2pAddr(to_uppercase(dest))

\* I2pAddr::new
new(dest) == I2pAddr(dest)

\* a faulty from_b64 that encodes the destination's bytes without hashing
\* them: C6 tells it from from_b64
from_b64_unhashed(dest) ==
    LET bin_data == BASE64_I2P_decode(as_bytes(dest))
    IN  IF ~bin_data.ok THEN BadAddressEncoding(dest)
        ELSE LET b32 == BASE32_encode(bin_data.bytes)
             IN  Ok(I2pAddr(b32 \o B32_EXT))

\* I2pAddr::from_b64
from_b64(dest) ==
    LET bin_data == BASE64_I2P_decode(as_bytes(dest))
    IN  IF ~bin_data.ok THEN BadAddressEncoding(dest)
        ELSE LET b32 == BASE32_encode(Sha256(bin_data.bytes))
             IN  Ok(I2pAddr(b32 \o B32_EXT))

\* a faulty from_b32 that stores the uppercased copy it validated: C5 tells
\* it from from_b32
from_b32_stores_upper(addr) ==
    LET b32_parts == split(addr, B32_EXT)
    IN  IF Len(b32_parts) # 2 THEN BadAddressEncoding(addr)
        ELSE IF len(b32_parts[1]) # B32_LEN THEN BadAddressEncoding(addr)
        ELSE LET decoded == BASE32_NOPAD_decode(as_bytes(to_uppercase(b32_parts[1])))
             IN  IF ~decoded.ok THEN FromDecodeError(decoded)
                 ELSE Ok(I2pAddr(to_uppercase(addr)))

\* a faulty from_b32 that drops the result of the decode: C8 tells it from
\* from_b32
from_b32_decode_ignored(addr) ==
    LET b32_parts == split(addr, B32_EXT)
    IN  IF Len(b32_parts) # 2 THEN BadAddressEncoding(addr)
        ELSE IF len(b32_parts[1]) # B32_LEN THEN BadAddressEncoding(addr)
        ELSE Ok(I2pAddr(addr))

\* I2pAddr::from_b32
from_b32(addr) ==
    LET b32_parts == split(addr, B32_EXT)
    IN  IF Len(b32_parts) # 2 THEN BadAddressEncoding(addr)
        ELSE IF len(b32_parts[1]) # B32_LEN THEN BadAddressEncoding(addr)
        ELSE LET decoded == BASE32_NOPAD_decode(as_bytes(to_uppercase(b32_parts[1])))
             IN  IF ~decoded.ok THEN FromDecodeError(decoded)
                 ELSE Ok(I2pAddr(addr))

\* I2pAddr::string
string(a) == a.inner

\* impl fmt::Display for I2pAddr
Display(a) == a.inner

(***************************************************************************)
(* The strings handed to the constructors.                                 *)
(***************************************************************************)
\* the B32 address of the documentation of I2pAddr, without its extension
DocB32 == [i \in 1..B32_LEN |-> (LowerLetters \o <<"2", "3", "4", "5", "6", "7">>)[((i - 1) % 32) + 1]]
\* the hostname of the documentation
DocHost == <<"e", "x", "a", "m", "p", "l", "e", ".", "i", "2", "p">>

Block(n) == SubSeq(DocB32, 1, n)

TailChars == {"a", "Q", "1"}
\* sharp s and long s: two bytes each, uppercased to "SS" and to "S"
WideChars == {"U+00DF", "U+017F"}
DestChars == {"A", "-", "+", "="}
Suffixes ==
    {<<>>, B32_EXT, B32_EXT \o B32_EXT, B32_EXT \o <<"x">>, SubSeq(B32_EXT, 1, 7)}

\* a block of the documented address, a short tail, and what follows it
B32Inputs ==
    {Block(n) \o tail \o suffix :
        n \in {B32_LEN - MaxTail, B32_LEN - MaxTail + 1},
        tail \in SeqsUpTo(TailChars, MaxTail),
        suffix \in Suffixes}

\* the same with a character outside ASCII in the tail, the extension once
WideInputs ==
    {Block(n) \o tail \o B32_EXT :
        n \in {B32_LEN - MaxTail, B32_LEN - MaxTail + 1},
        tail \in {s \in SeqsUpTo(TailChars \cup WideChars, MaxTail) :
                     \E i \in DOMAIN s : s[i] \in WideChars}}

\* short destination strings
DestInputs == SeqsUpTo(DestChars, MaxB64Len)

\* two padded blocks in a row, and the one block with the same bytes
PaddedBlocks == {<<"A", "A", "=", "=">>, <<"A", "Q", "=", "=">>, <<"A", "A", "A", "=">>, <<"Q", "Q", "=", "=">>}
TwoBlockInputs == {x \o y : x \in PaddedBlocks, y \in PaddedBlocks}

OtherInputs ==
    {DocHost, DocB32 \o B32_EXT, B32_EXT \o Block(B32_LEN) \o B32_EXT}

Inputs ==
    B32Inputs \cup WideInputs \cup DestInputs \cup TwoBlockInputs \cup OtherInputs

(***************************************************************************)
(* One constructor call on one string.                                     *)
(***************************************************************************)
Init ==
    /\ input \in Inputs
    /\ op = "none"
    /\ result = [ok |-> FALSE, kind |-> "none", arg |-> <<>>]

New ==
    /\ op = "none"
    /\ op' = "new"
    /\ result' = Ok(new(input))
    /\ UNCHANGED input

FromB64 ==
    /\ op = "none"
    /\ op' = "from_b64"
    /\ result' = from_b64(input)
    /\ UNCHANGED input

FromB32 ==
    /\ op = "none"
    /\ op' = "from_b32"
    /\ result' = from_b32(input)
    /\ UNCHANGED input

Next == New \/ FromB64 \/ FromB32

Spec == Init /\ [][Next]_vars

(***************************************************************************)
(* The claims.                                                             *)
(***************************************************************************)
CalledB64Ok == op = "from_b64" /\ result.ok
CalledB32Ok == op = "from_b32" /\ result.ok

\* the positions of input at which the extension occurs
ExtPositions(s) == {i \in DOMAIN s : StartsWithAt(s, i, B32_EXT)}

\* the characters before the first occurrence of the extension
Segment(s) == SubSeq(s, 1, (CHOOSE i \in ExtPositions(s) :
                                \A j \in ExtPositions(s) : i <= j) - 1)

\* what follows the first occurrence of the extension
AfterExt(s) == SubSeq(s, Len(Segment(s)) + Len(B32_EXT) + 1, Len(s))

Base32Letters ==
    {"A", "B", "C", "D", "E", "F", "G", "H", "I", "J", "K", "L", "M",
     "N", "O", "P", "Q", "R", "S", "T", "U", "V", "W", "X", "Y", "Z",
     "a", "b", "c", "d", "e", "f", "g", "h", "i", "j", "k", "l", "m",
     "n", "o", "p", "q", "r", "s", "t", "u", "v", "w", "x", "y", "z",
     "2", "3", "4", "5", "6", "7"}

\* C1: for every d that from_b64 accepts, the part of from_b64(d).string()
\* before the extension has length B32_LEN = 52, and the whole string has
\* length 60.
C1_B64SegmentIs52 ==
    CalledB64Ok =>
        /\ ExtPositions(string(result.addr)) # {}
        /\ Len(Segment(string(result.addr))) = B32_LEN
        /\ Len(string(result.addr)) = B32_LEN + Len(B32_EXT)

\* C2: every address produced by from_b64 is in valid base32 form: it holds
\* the extension exactly once, its part before the extension is exactly 52
\* characters, and from_b32 accepts it.
C2_B64OutputAcceptedByB32 ==
    CalledB64Ok =>
        /\ Cardinality(ExtPositions(string(result.addr))) = 1
        /\ Len(Segment(string(result.addr))) = B32_LEN
        /\ from_b32(string(result.addr)).ok

\* C3: every string from_b32 accepts is 52 characters followed by the
\* extension and nothing else: no accepted string has text after the
\* extension.
C3_AcceptedEndsWithExt ==
    CalledB32Ok =>
        /\ ExtPositions(input) # {}
        /\ AfterExt(input) = <<>>

\* C4: from_b32 returns a BadAddressEncoding error for every string without
\* the extension, with more than one extension, or whose segment before the
\* extension is not exactly 52 characters long.
C4_MalformedRejected ==
    (/\ op = "from_b32"
     /\ \/ Cardinality(ExtPositions(input)) # 1
        \/ Len(Segment(input)) # B32_LEN)
    => (~result.ok /\ result.kind = "BadAddressEncoding")

\* C5: for every string s that from_b32 accepts, from_b32(s).string() is
\* exactly s, letter case included.
C5_B32RoundTrip == CalledB32Ok => string(result.addr) = input

C5_Witness ==
    /\ CalledB32Ok
    /\ to_uppercase(input) # input
    /\ \E i \in DOMAIN input : input[i] = "Q"

\* known digests: the address of the empty destination and of the
\* destination of one zero byte
AddrOfEmpty ==
    <<"4", "O", "Y", "M", "I", "Q", "U", "Y", "7", "Q", "O", "B", "J",
      "G", "X", "3", "6", "T", "E", "J", "S", "3", "5", "Z", "E", "Q",
      "T", "2", "4", "Q", "P", "E", "M", "S", "N", "Z", "G", "T", "F",
      "E", "S", "W", "M", "R", "W", "6", "C", "S", "X", "B", "K", "Q",
      "=", "=", "=", "=", ".", "b", "3", "2", ".", "i", "2", "p">>
AddrOfZeroByte ==
    <<"N", "Y", "2", "A", "X", "H", "H", "7", "W", "N", "5", "J", "R",
      "H", "F", "F", "I", "T", "T", "L", "W", "6", "A", "K", "F", "R",
      "4", "J", "A", "H", "J", "7", "W", "M", "3", "T", "Q", "5", "U",
      "F", "C", "G", "R", "Q", "M", "F", "5", "P", "U", "A", "O", "Q",
      "=", "=", "=", "=", ".", "b", "3", "2", ".", "i", "2", "p">>

\* C6: for every valid destination d, from_b64(d).string() is the padded
\* base32 text of the SHA-256 digest of the decoded bytes followed by the
\* extension, and depends on the decoded bytes only: every destination with
\* the same decoded bytes gets the same address.
C6_B64IsHashOfBytes ==
    (op = "from_b64" /\ BASE64_I2P_decode(as_bytes(input)).ok) =>
        LET bytes == BASE64_I2P_decode(as_bytes(input)).bytes
        IN  /\ result.ok
            /\ string(result.addr) = BASE32_encode(Sha256(bytes)) \o B32_EXT
            /\ bytes = <<>> => string(result.addr) = AddrOfEmpty
            /\ bytes = <<0>> => string(result.addr) = AddrOfZeroByte
            /\ \A d \in PaddedBlocks \cup TwoBlockInputs :
                   LET other == BASE64_I2P_decode(as_bytes(d))
                   IN  (other.ok /\ other.bytes = bytes) => from_b64(d) = result

C6_Witness ==
    /\ CalledB64Ok
    /\ \E d \in PaddedBlocks \cup TwoBlockInputs :
           /\ d # input
           /\ BASE64_I2P_decode(as_bytes(d)).ok
           /\ BASE64_I2P_decode(as_bytes(d)).bytes
                  = BASE64_I2P_decode(as_bytes(input)).bytes

\* the 64 symbols of an I2P destination, in the order of their values
I2pAlphabet ==
    <<"A", "B", "C", "D", "E", "F", "G", "H", "I", "J", "K", "L", "M",
      "N", "O", "P", "Q", "R", "S", "T", "U", "V", "W", "X", "Y", "Z",
      "a", "b", "c", "d", "e", "f", "g", "h", "i", "j", "k", "l", "m",
      "n", "o", "p", "q", "r", "s", "t", "u", "v", "w", "x", "y", "z",
      "0", "1", "2", "3", "4", "5", "6", "7", "8", "9", "-", "~">>

I2pValue(c) == (CHOOSE i \in DOMAIN I2pAlphabet : I2pAlphabet[i] = c) - 1
IsI2pSymbol(c) == \E i \in DOMAIN I2pAlphabet : I2pAlphabet[i] = c

\* a group of four bytes of a destination: four symbols, or three symbols
\* and one "=", or two symbols and two "=", the unused low bits zero
ValidGroup(q) ==
    /\ IsI2pSymbol(q[1])
    /\ IsI2pSymbol(q[2])
    /\ \/ IsI2pSymbol(q[3]) /\ IsI2pSymbol(q[4])
       \/ IsI2pSymbol(q[3]) /\ q[4] = "=" /\ I2pValue(q[3]) % 4 = 0
       \/ q[3] = "=" /\ q[4] = "=" /\ I2pValue(q[2]) % 16 = 0

DecodesAsDestination(s) ==
    LET b == as_bytes(s)
    IN  /\ Len(b) % 4 = 0
        /\ \A k \in 0..((Len(b) \div 4) - 1) :
               ValidGroup(SubSeq(b, 4 * k + 1, 4 * k + 4))

\* C7: from_b64(s) fails exactly when s does not decode under the alphabet
\* A-Z, a-z, 0-9, "-", "~" with "=" padding; the failure is a
\* BadAddressEncoding error carrying s; when the decode succeeds from_b64
\* returns Ok.
C7_B64FailsIffUndecodable ==
    op = "from_b64" =>
        /\ result.ok <=> DecodesAsDestination(input)
        /\ ~result.ok => (result.kind = "BadAddressEncoding" /\ result.arg = input)

C7_Witness ==
    /\ op = "from_b64"
    /\ ~result.ok
    /\ Len(input) = 4
    /\ \E i \in DOMAIN input : input[i] = "+"
    /\ \A i \in DOMAIN input : input[i] # "="

C9_NewKeepsString ==
    op = "new" =>
        /\ result.ok
        /\ string(result.addr) = input
        /\ Display(result.addr) = input

C9_Witness ==
    /\ op = "new"
    /\ result.ok
    /\ input # <<>>
    /\ to_uppercase(input) # input
    /\ ~from_b32(input).ok
    /\ ~DecodesAsDestination(input)

\* C10: every string from_b32 accepts has, before the extension, exactly 52
\* characters, all of them base32 letters (A-Z, a-z, 2-7), that decode to 32
\* bytes with zero trailing bits: uppercasing changes neither the characters
\* checked nor their number.
C10_AcceptedSegmentIsBase32 ==
    CalledB32Ok =>
        /\ ExtPositions(input) # {}
        /\ Len(Segment(input)) = B32_LEN
        /\ \A i \in DOMAIN Segment(input) : Segment(input)[i] \in Base32Letters
        /\ Len(to_uppercase(Segment(input))) = Len(Segment(input))
        /\ LET decoded == BASE32_NOPAD_decode(as_bytes(to_uppercase(Segment(input))))
           IN  decoded.ok /\ Len(decoded.bytes) = 32

====
